---- MODULE Spec2Model ----
(***************************************************************************)
(* Box2Pix (src/models/box2pix.py): the network's construction, weight    *)
(* initialisation, pretrained-backbone import and forward pass, as a       *)
(* state machine over tensor shapes, channel counts, parameter states and  *)
(* "exactly zero" value classes.                                           *)
(*                                                                         *)
(* A tensor is abstracted to [err, id, c, h, w, zero]: the module that     *)
(* produced it, its channel count, height and width, and whether every     *)
(* element is known to be exactly zero.                                    *)
(***************************************************************************)
EXTENDS Integers, Sequences, FiniteSets, TLC

VARIABLES
    net,     \* the network instance: flag, parameter states
    ctor,    \* outcome of the last constructor call
    hist,    \* history: constructor's transform_input, init_from_googlenet called
    pc,      \* "idle" | "done": a forward call has returned and its result is held
    out,     \* what the last forward call returned (or the error it raised)
    tpc,     \* parallel evaluation: position of the head and of each decoder
    locals,  \* parallel evaluation: forward's local variables (name -> buffer)
    heap,    \* parallel evaluation: buffer -> value
    log      \* parallel evaluation: buffers written, with the writer

vars == <<net, ctor, hist, pc, out, tpc, locals, heap, log>>

---------------------------------------------------------------------------
(* Bounds of the model.                                                    *)

\* forward is called on images whose height and width are small (1..MaxSmall:
\* where the encoder's pools run out of rows) or at and above the documented
\* minimum of 64 (64..MaxSize: every residue of the final stride 8)
MaxSmall == 24

MaxSize == 72

Sizes == (1..MaxSmall) \cup (64..MaxSize)

\* num_classes arguments the constructor is called with: negative, zero, the
\* offsets' width 2, the default 11, and two values that are also the output
\* width of a 1x1 convolution of the encoder (16: inception3a, 32: inception6a)
NumClassesArgs == {-1, 0, 2, 11, 16, 32}

Min(a, b) == IF a <= b THEN a ELSE b

\* the transform_input keyword of a constructor call
KwArgs == {"absent", "True", "False"}

---------------------------------------------------------------------------
(* Module declarations of Box2Pix.__init__.                                *)

BasicConv2d(name, in_channels, out_channels, kernel_size, stride, padding) ==
    [kind |-> "conv", name |-> name, in_channels |-> in_channels,
     out_channels |-> out_channels, kernel_size |-> kernel_size,
     stride |-> stride, padding |-> padding]

MaxPool2d(name, kernel_size, stride, ceil_mode) ==
    [kind |-> "pool", name |-> name, kernel_size |-> kernel_size,
     stride |-> stride, padding |-> 0, ceil_mode |-> ceil_mode]

\* torchvision's Inception: the "5x5" branch has a 3x3 kernel, padding 1
Inception(name, in_channels, ch1x1, ch3x3red, ch3x3, ch5x5red, ch5x5, pool_proj) ==
    [kind |-> "inception", name |-> name, in_channels |-> in_channels,
     ch1x1 |-> ch1x1, ch3x3red |-> ch3x3red, ch3x3 |-> ch3x3,
     ch5x5red |-> ch5x5red, ch5x5 |-> ch5x5, pool_proj |-> pool_proj,
     k5 |-> 3, p5 |-> 1]

\* this file's Inception2: the same four branches, branch3 with a 5x5 kernel, padding 2
Inception2(name, in_channels, ch1x1, ch3x3red, ch3x3, ch5x5red, ch5x5, pool_proj) ==
    [kind |-> "inception", name |-> name, in_channels |-> in_channels,
     ch1x1 |-> ch1x1, ch3x3red |-> ch3x3red, ch3x3 |-> ch3x3,
     ch5x5red |-> ch5x5red, ch5x5 |-> ch5x5, pool_proj |-> pool_proj,
     k5 |-> 5, p5 |-> 2]

\* the encoder's modules, in declaration order
EncoderModules ==
    << BasicConv2d("conv1", 3, 64, 7, 2, 3),
       MaxPool2d("maxpool1", 3, 2, TRUE),
       BasicConv2d("conv2", 64, 64, 1, 1, 0),
       BasicConv2d("conv3", 64, 192, 3, 1, 1),
       MaxPool2d("maxpool2", 3, 2, TRUE),
       Inception("inception3a", 192, 64, 96, 128, 16, 32, 32),
       Inception("inception3b", 256, 128, 128, 192, 32, 96, 64),
       MaxPool2d("maxpool3", 3, 2, TRUE),
       Inception("inception4a", 480, 192, 96, 208, 16, 48, 64),
       Inception("inception4b", 512, 160, 112, 224, 24, 64, 64),
       Inception("inception4c", 512, 128, 128, 256, 24, 64, 64),
       Inception("inception4d", 512, 112, 144, 288, 32, 64, 64),
       Inception("inception4e", 528, 256, 160, 320, 32, 128, 128),
       MaxPool2d("maxpool4", 2, 2, TRUE),
       Inception("inception5a", 832, 256, 160, 320, 32, 128, 128),
       Inception("inception5b", 832, 384, 192, 384, 48, 128, 128),
       MaxPool2d("maxpool5", 2, 2, TRUE),
       Inception2("inception6a", 1024, 256, 160, 320, 32, 128, 128),
       Inception2("inception6b", 832, 384, 192, 384, 48, 128, 128),
       MaxPool2d("maxpool6", 2, 2, TRUE),
       Inception2("inception7a", 1024, 256, 160, 320, 32, 128, 128),
       Inception2("inception7b", 832, 384, 192, 384, 48, 128, 128) >>

Module(name) ==
    EncoderModules[CHOOSE i \in 1..Len(EncoderModules) : EncoderModules[i].name = name]

Decoders == {"sem", "offs"}

\* channel width of a decoder: num_classes for semantics, 2 for offsets
DecoderChannels(d, num_classes) == IF d = "sem" THEN num_classes ELSE 2

\* the 1x1 score projections of one decoder: nn.Conv2d(in, C, kernel_size=1), with bias
ScoreInChannels == [score3b |-> 480, score4e |-> 832, score5b |-> 1024, score6b |-> 1024]

ScoreNames == {"score3b", "score4e", "score5b", "score6b"}

\* the stride-2 and stride-8 transpose convolutions of one decoder (bias=False)
Upscore == [upscore  |-> [kernel_size |-> 4, stride |-> 2],
            upscore2 |-> [kernel_size |-> 4, stride |-> 2],
            upscore4 |-> [kernel_size |-> 4, stride |-> 2],
            upscore8 |-> [kernel_size |-> 16, stride |-> 8]]

\* attribute names of the eight score projections
ScoreModule ==
    [sem  |-> [score3b |-> "sem_score3b", score4e |-> "sem_score4e",
               score5b |-> "sem_score5b", score6b |-> "sem_score6b"],
     offs |-> [score3b |-> "offs_score3b", score4e |-> "offs_score4e",
               score5b |-> "offs_score5b", score6b |-> "offs_score6b"]]

ScoreProjections == { <<ScoreModule[d][s], "conv">> : d \in Decoders, s \in ScoreNames }

---------------------------------------------------------------------------
(* The nn.Conv2d modules self.modules() yields, as _initialize_weights     *)
(* sees them: id, kernel_size[0], out_channels, and whether a bias exists. *)

Conv2d(owner, part, kernel_size, out_channels, bias) ==
    [id |-> <<owner, part>>, kernel_size |-> kernel_size,
     out_channels |-> out_channels, bias |-> bias]

\* BasicConv2d wraps nn.Conv2d(..., bias=False) and a BatchNorm2d
ModuleConvs(m) ==
    IF m.kind = "conv"
    THEN { Conv2d(m.name, "conv", m.kernel_size, m.out_channels, FALSE) }
    ELSE IF m.kind = "inception"
    THEN { Conv2d(m.name, "branch1", 1, m.ch1x1, FALSE),
           Conv2d(m.name, "branch2.0", 1, m.ch3x3red, FALSE),
           Conv2d(m.name, "branch2.1", 3, m.ch3x3, FALSE),
           Conv2d(m.name, "branch3.0", 1, m.ch5x5red, FALSE),
           Conv2d(m.name, "branch3.1", m.k5, m.ch5x5, FALSE),
           Conv2d(m.name, "branch4.1", 1, m.pool_proj, FALSE) }
    ELSE {}

EncoderConvs == UNION { ModuleConvs(EncoderModules[i]) : i \in 1..Len(EncoderModules) }

ScoreConvs(num_classes) ==
    { Conv2d(ScoreModule[d][s], "conv", 1, DecoderChannels(d, num_classes), TRUE) :
        d \in Decoders, s \in ScoreNames }

Convs(num_classes) == EncoderConvs \cup ScoreConvs(num_classes)

\* the test of line 84 without the offsets' width 2
ZeroBranchClassesOnly(m, num_classes) ==
    m.kernel_size = 1 /\ m.out_channels = num_classes

\* line 84: the test that sends a convolution to the all-zero branch
ZeroBranch(m, num_classes) ==
    m.kernel_size = 1 /\ m.out_channels \in {num_classes, 2}

\* _initialize_weights: the convolutions set to zero weight and bias, and whether
\* constant_(m.bias, 0) met a convolution without bias (m.bias is None: it raises)
InitializeWeights(num_classes) ==
    LET zero == { m \in Convs(num_classes) : ZeroBranch(m, num_classes) }
    IN  [err    |-> \E m \in zero : ~m.bias,
         zeroed |-> { m.id : m \in zero },
         xavier |-> { m.id : m \in Convs(num_classes) \ zero }]

\* a layer constructor (nn.Conv2d, nn.ConvTranspose2d) given a channel count:
\* a negative count cannot size the weight tensor; zero is accepted
LayerRejects(channels) == channels < 0

NoNet ==
    [built |-> FALSE, num_classes |-> 0, transform_input |-> FALSE,
     zeroed |-> {}, pretrained |-> {}]

\* Box2Pix.__init__(num_classes, transform_input)
NewBox2Pix(num_classes, transform_input) ==
    LET init == InitializeWeights(num_classes)
        err  == IF LayerRejects(num_classes) THEN "layer"
                ELSE IF init.err THEN "bias"
                ELSE "none"
    IN  [err |-> err,
         zeroed |-> IF err = "layer" THEN {} ELSE init.zeroed,
         net |-> IF err # "none" THEN NoNet
                 ELSE [built |-> TRUE, num_classes |-> num_classes,
                       transform_input |-> transform_input,
                       zeroed |-> init.zeroed, pretrained |-> {}]]

\* modules of this network whose names and shapes torchvision's GoogLeNet shares:
\* load_state_dict(strict=False) overwrites exactly these
GoogLeNetModules ==
    {"conv1", "conv2", "conv3", "inception3a", "inception3b", "inception4a",
     "inception4b", "inception4c", "inception4d", "inception4e", "inception5a",
     "inception5b"}

\* init_from_googlenet without its last line
FlagKeptByImport(flag) == flag

\* line 100: self.transform_input = True
FlagAfterImport(flag) == TRUE

---------------------------------------------------------------------------
(* Tensors and the layers' arithmetic.                                     *)

Tensor(id, c, h, w, zero) ==
    [err |-> "none", id |-> id, c |-> c, h |-> h, w |-> w, zero |-> zero]

Fail(err) == [err |-> err, id |-> "", c |-> 0, h |-> 0, w |-> 0, zero |-> FALSE]

\* output size of a convolution
ConvOut(n, kernel_size, stride, padding) ==
    ((n + 2 * padding - kernel_size) \div stride) + 1

\* output size of nn.MaxPool2d; in ceil mode the last window must start inside
\* the input or its left padding
PoolOut(n, kernel_size, stride, padding, ceil_mode) ==
    LET o == ((n + 2 * padding - (kernel_size - 1) - 1
               + (IF ceil_mode THEN stride - 1 ELSE 0)) \div stride) + 1
    IN  IF ceil_mode /\ (o - 1) * stride >= n + padding THEN o - 1 ELSE o

\* a transpose convolution taken for an exact stride-fold upsampling
ConvTransposeOutExact(n, kernel_size, stride) == n * stride

\* output size of nn.ConvTranspose2d(kernel_size, stride), no padding
ConvTransposeOut(n, kernel_size, stride) == (n - 1) * stride + kernel_size

\* a convolution with the given parameter state: zero weight and zero (or no)
\* bias give zero on any input; a zero input gives the bias
Conv(t, id, in_channels, out_channels, kernel_size, stride, padding, wzero, bzero) ==
    IF t.err # "none" THEN t
    ELSE IF t.c # in_channels THEN Fail("channels")
    ELSE IF t.h + 2 * padding < kernel_size \/ t.w + 2 * padding < kernel_size
    THEN Fail("size")
    ELSE Tensor(id, out_channels,
                ConvOut(t.h, kernel_size, stride, padding),
                ConvOut(t.w, kernel_size, stride, padding),
                (wzero \/ t.zero) /\ bzero)

\* BasicConv2d.forward: conv (no bias), batch norm, relu. After _initialize_weights
\* the norm's shift is 0; after the GoogLeNet import it is the imported one.
ApplyBasicConv(t, n, owner, part, in_channels, out_channels, kernel_size, stride, padding) ==
    LET y == Conv(t, owner, in_channels, out_channels, kernel_size, stride, padding,
                  <<owner, part>> \in n.zeroed, TRUE)
    IN  IF y.err # "none" THEN y
        ELSE [y EXCEPT !.zero = y.zero /\ owner \notin n.pretrained]

ApplyPool(t, name, kernel_size, stride, padding, ceil_mode) ==
    IF t.err # "none" THEN t
    ELSE LET h == PoolOut(t.h, kernel_size, stride, padding, ceil_mode)
             w == PoolOut(t.w, kernel_size, stride, padding, ceil_mode)
         IN  IF h < 1 \/ w < 1 THEN Fail("size")
             ELSE Tensor(name, t.c, h, w, t.zero)

\* a concatenation that leaves the pooling branch out
InceptionOutChannelsNoPool(m) == m.ch1x1 + m.ch3x3 + m.ch5x5

\* channel count of an Inception / Inception2 output: torch.cat(outputs, 1)
InceptionOutChannels(m) == m.ch1x1 + m.ch3x3 + m.ch5x5 + m.pool_proj

\* torch.cat(outputs, 1) of the four branches
Cat(name, channels, bs) ==
    IF \E i \in 1..4 : bs[i].err # "none"
    THEN bs[CHOOSE i \in 1..4 : bs[i].err # "none"]
    ELSE IF \E i \in 2..4 : bs[i].h # bs[1].h \/ bs[i].w # bs[1].w THEN Fail("shape")
    ELSE Tensor(name, channels, bs[1].h, bs[1].w, \A i \in 1..4 : bs[i].zero)

\* Inception2.forward (and torchvision's Inception.forward)
ApplyInception(t, n, m) ==
    IF t.err # "none" THEN t
    ELSE Cat(m.name, InceptionOutChannels(m),
           << ApplyBasicConv(t, n, m.name, "branch1", m.in_channels, m.ch1x1, 1, 1, 0),
              ApplyBasicConv(
                 ApplyBasicConv(t, n, m.name, "branch2.0", m.in_channels, m.ch3x3red, 1, 1, 0),
                 n, m.name, "branch2.1", m.ch3x3red, m.ch3x3, 3, 1, 1),
              ApplyBasicConv(
                 ApplyBasicConv(t, n, m.name, "branch3.0", m.in_channels, m.ch5x5red, 1, 1, 0),
                 n, m.name, "branch3.1", m.ch5x5red, m.ch5x5, m.k5, 1, m.p5),
              ApplyBasicConv(ApplyPool(t, m.name, 3, 1, 1, TRUE),
                 n, m.name, "branch4.1", m.in_channels, m.pool_proj, 1, 1, 0) >>)

ApplyModule(t, n, m) ==
    IF m.kind = "conv"
    THEN ApplyBasicConv(t, n, m.name, "conv", m.in_channels, m.out_channels,
                        m.kernel_size, m.stride, m.padding)
    ELSE IF m.kind = "pool"
    THEN ApplyPool(t, m.name, m.kernel_size, m.stride, m.padding, m.ceil_mode)
    ELSE ApplyInception(t, n, m)

\* _transform_input: per channel x * scale + shift, with a non-zero shift
TransformInput(t) == [t EXCEPT !.id = "transform_input", !.zero = FALSE]

---------------------------------------------------------------------------
(* Box2Pix.forward.                                                        *)

\* a forward that appends every output it keeps
StepAppendKept(layer, keep, append) == [layer |-> layer, keep |-> keep, append |-> keep]

\* lines 115-143: the modules in the order forward applies them, whether the
\* output is kept in a variable of its own, and whether it is appended to
\* feature_maps
Step(layer, keep, append) == [layer |-> layer, keep |-> keep, append |-> append]

ForwardOrder ==
    << Step("conv1", FALSE, FALSE), Step("maxpool1", FALSE, FALSE),
       Step("conv2", FALSE, FALSE), Step("conv3", FALSE, FALSE),
       Step("maxpool2", FALSE, FALSE),
       Step("inception3a", FALSE, FALSE), Step("inception3b", TRUE, FALSE),
       Step("maxpool3", FALSE, FALSE),
       Step("inception4a", FALSE, FALSE), Step("inception4b", FALSE, FALSE),
       Step("inception4c", FALSE, FALSE), Step("inception4d", FALSE, FALSE),
       Step("inception4e", TRUE, TRUE),
       Step("maxpool4", FALSE, FALSE),
       Step("inception5a", FALSE, FALSE), Step("inception5b", TRUE, TRUE),
       Step("maxpool5", FALSE, FALSE),
       Step("inception6a", FALSE, FALSE), Step("inception6b", TRUE, TRUE),
       Step("maxpool6", FALSE, FALSE),
       Step("inception7a", FALSE, FALSE), Step("inception7b", TRUE, TRUE) >>

KeptNames == { ForwardOrder[i].layer : i \in { j \in 1..Len(ForwardOrder) : ForwardOrder[j].keep } }

\* the encoder from step i on: x is the running tensor, acc what was kept so far
RECURSIVE Encode(_, _, _, _)
Encode(i, x, n, acc) ==
    IF i > Len(ForwardOrder) \/ x.err # "none"
    THEN [acc EXCEPT !.err = x.err]
    ELSE LET st == ForwardOrder[i]
             m  == Module(st.layer)
             y  == ApplyModule(x, n, m)
         IN  Encode(i + 1, y, n,
                 [acc EXCEPT
                    !.kept = IF st.keep /\ y.err = "none"
                             THEN [@ EXCEPT ![st.layer] = y] ELSE @,
                    !.feature_maps = IF st.append /\ y.err = "none"
                                     THEN Append(@, y) ELSE @,
                    !.stage_in = IF m.kind = "inception"
                                 THEN Append(@, [stage |-> m.name,
                                                 declared |-> m.in_channels,
                                                 received |-> x.c])
                                 ELSE @])

Encoder(x, n) ==
    Encode(1, x, n, [err |-> "none",
                     kept |-> [k \in KeptNames |-> Fail("unset")],
                     feature_maps |-> << >>,
                     stage_in |-> << >>])

\* lines 147-148, 152, 156: the encoder output each score projection is applied to
ScoreInput == [score6b |-> "inception6b", score5b |-> "inception5b",
               score4e |-> "inception4e", score3b |-> "inception3b"]

\* a score projection nn.Conv2d(in, C, kernel_size=1) of decoder d
ApplyScore(d, s, t, n) ==
    LET id == <<ScoreModule[d][s], "conv">>
    IN  Conv(t, ScoreModule[d][s], ScoreInChannels[s],
             DecoderChannels(d, n.num_classes), 1, 1, 0,
             id \in n.zeroed, id \in n.zeroed)

\* a transpose convolution of decoder d: C -> C channels, bilinear weight, no bias
ApplyUpscore(u, t, channels) ==
    IF t.err # "none" THEN t
    ELSE IF t.c # channels THEN Fail("channels")
    ELSE Tensor(u, channels,
                ConvTransposeOut(t.h, Upscore[u].kernel_size, Upscore[u].stride),
                ConvTransposeOut(t.w, Upscore[u].kernel_size, Upscore[u].stride),
                t.zero)

\* t[a : a + len] along an axis of length n: a slice is clamped to the axis
SliceLen(n, a, len) == Min(a + len, n) - Min(a, n)

\* t[:, :, a:a + ref.h, a:a + ref.w]
Crop(t, a, ref) ==
    IF t.err # "none" THEN t
    ELSE IF ref.err # "none" THEN ref
    ELSE [t EXCEPT !.h = SliceLen(t.h, a, ref.h), !.w = SliceLen(t.w, a, ref.w)]

\* whether the window a .. a + ref size reaches past t
Overruns(t, a, ref) ==
    t.err = "none" /\ ref.err = "none" /\ (a + ref.h > t.h \/ a + ref.w > t.w)

\* a += b: b is broadcast to a's shape, which an axis of b other than 1 and other
\* than a's cannot be
AddInPlace(a, b) ==
    IF a.err # "none" THEN a
    ELSE IF b.err # "none" THEN b
    ELSE IF \/ b.c # a.c /\ b.c # 1
            \/ b.h # a.h /\ b.h # 1
            \/ b.w # a.w /\ b.w # 1
    THEN Fail("shape")
    ELSE [a EXCEPT !.zero = a.zero /\ b.zero]

\* lines 149-159: the three x2 fusion steps, deepest first: the transpose
\* convolution applied and the score projection whose output is added
FusionSteps ==
    << [upscore |-> "upscore",  score |-> "score5b"],
       [upscore |-> "upscore2", score |-> "score4e"],
       [upscore |-> "upscore4", score |-> "score3b"] >>

\* the crop offset of a fusion step (lines 150, 154, 158) and of the last step (line 161)
FusionOffset == 1

FinalOffset == 4

\* one fusion: up is the upsampled coarser map, score the finer score tensor
Fuse(up, score) ==
    [fused   |-> AddInPlace(Crop(up, FusionOffset, score), score),
     record  |-> [up |-> up, crop |-> Crop(up, FusionOffset, score), score |-> score],
     overrun |-> Overruns(up, FusionOffset, score)]

\* the encoder outputs a decoder projects, shallowest first
DecoderInputs(kept) ==
    << kept[ScoreInput.score3b].id, kept[ScoreInput.score4e].id,
       kept[ScoreInput.score5b].id, kept[ScoreInput.score6b].id >>

\* fusion steps i.. of decoder d: acc is the map fused so far
RECURSIVE Fusions(_, _, _, _, _, _)
Fusions(d, i, acc, kept, n, trace) ==
    IF i > Len(FusionSteps)
    THEN [fused |-> acc, inputs |-> DecoderInputs(kept),
          fusions |-> trace.fusions, overrun |-> trace.overrun]
    ELSE LET f == Fuse(ApplyUpscore(FusionSteps[i].upscore, acc,
                                    DecoderChannels(d, n.num_classes)),
                       ApplyScore(d, FusionSteps[i].score,
                                  kept[ScoreInput[FusionSteps[i].score]], n))
         IN  Fusions(d, i + 1, f.fused, kept, n,
                     [fusions |-> Append(trace.fusions, f.record),
                      overrun |-> trace.overrun \/ f.overrun])

\* lines 160-161: the x8 transpose convolution and the crop to the image's size
FinalCrop(up, image, r) ==
    [result  |-> Crop(up, FinalOffset, image),
     inputs  |-> r.inputs,
     fusions |-> r.fusions,
     overrun |-> r.overrun \/ Overruns(up, FinalOffset, image)]

FinalUpscore(d, r, image, n) ==
    FinalCrop(ApplyUpscore("upscore8", r.fused, DecoderChannels(d, n.num_classes)),
              image, r)

\* lines 147-161 (d = "sem") and 163-177 (d = "offs")
Decoder(d, kept, image, n) ==
    FinalUpscore(d,
        Fusions(d, 1, ApplyScore(d, "score6b", kept[ScoreInput.score6b], n),
                kept, n, [fusions |-> << >>, overrun |-> FALSE]),
        image, n)

\* the detection head, MultiBox.forward(feature_maps): loc [N, *, 4] and
\* conf [N, *, num_classes]; it reads the feature maps and writes none
MultiBox(feature_maps, n) ==
    [inputs |-> [i \in 1..Len(feature_maps) |-> feature_maps[i].id],
     loc_last |-> 4, conf_last |-> n.num_classes]

NoOut ==
    [called |-> FALSE, err |-> "none", h |-> 0, w |-> 0, zero_image |-> FALSE,
     normalized |-> FALSE, encoded |-> FALSE, features_zero |-> FALSE,
     feature_maps |-> << >>, stage_in |-> << >>, kept_c |-> << >>,
     sem |-> [result |-> Fail("unset"), inputs |-> << >>, fusions |-> << >>,
              overrun |-> FALSE],
     offs |-> [result |-> Fail("unset"), inputs |-> << >>, fusions |-> << >>,
               overrun |-> FALSE]]

\* lines 145-179 once the encoder has run (or raised)
Heads(enc, image, n) ==
    IF enc.err # "none"
    THEN [NoOut EXCEPT !.called = TRUE, !.err = enc.err, !.stage_in = enc.stage_in]
    ELSE [NoOut EXCEPT
            !.called = TRUE,
            !.encoded = TRUE,
            !.features_zero = \A k \in KeptNames : enc.kept[k].zero,
            !.feature_maps = MultiBox(enc.feature_maps, n).inputs,
            !.stage_in = enc.stage_in,
            !.kept_c = << enc.kept["inception3b"].c, enc.kept["inception4e"].c,
                          enc.kept["inception5b"].c, enc.kept["inception6b"].c >>,
            !.sem = Decoder("sem", enc.kept, image, n),
            !.offs = Decoder("offs", enc.kept, image, n)]

\* the exception forward ends in, if a decoder raised
Raised(o) ==
    IF o.err # "none" THEN o
    ELSE IF o.sem.result.err # "none" THEN [o EXCEPT !.err = o.sem.result.err]
    ELSE [o EXCEPT !.err = o.offs.result.err]

\* forward(x) on an image [N, 3, h, w], all-zero or not
ForwardResult(n, h, w, zero_image) ==
    [ Raised(Heads(Encoder(IF n.transform_input
                           THEN TransformInput(Tensor("image", 3, h, w, zero_image))
                           ELSE Tensor("image", 3, h, w, zero_image), n),
                   Tensor("image", 3, h, w, zero_image), n))
      EXCEPT !.h = h, !.w = w, !.zero_image = zero_image,
             !.normalized = n.transform_input ]

---------------------------------------------------------------------------
(* The head and the two decoders as three interleaved instruction streams  *)
(* over forward's local variables and the buffers they refer to.           *)

Threads == {"head", "sem", "offs"}

\* the offsets decoder written over the semantic decoder's variable
AccVarShared(d) == "semantics"

\* the local variable a decoder accumulates into: semantics (line 149), offsets (line 165)
AccVar(d) == IF d = "sem" THEN "semantics" ELSE "offsets"

Ins(op, dst, src, arg) == [op |-> op, dst |-> dst, src |-> src, arg |-> arg]

\* lines 147-161 / 163-177 as instructions
Program(d) ==
    LET sc == ScoreModule[d]
        a  == AccVar(d)
    IN  << Ins("score", sc.score6b, ScoreInput.score6b, sc.score6b),
           Ins("score", sc.score5b, ScoreInput.score5b, sc.score5b),
           Ins("up",    a, sc.score6b, "upscore"),
           Ins("crop",  a, sc.score5b, 1),
           Ins("add",   a, sc.score5b, 0),
           Ins("score", sc.score4e, ScoreInput.score4e, sc.score4e),
           Ins("up",    a, a, "upscore2"),
           Ins("crop",  a, sc.score4e, 1),
           Ins("add",   a, sc.score4e, 0),
           Ins("score", sc.score3b, ScoreInput.score3b, sc.score3b),
           Ins("up",    a, a, "upscore4"),
           Ins("crop",  a, sc.score3b, 1),
           Ins("add",   a, sc.score3b, 0),
           Ins("up",    a, a, "upscore8"),
           Ins("final", a, a, 4) >>

ProgramLen == Len(Program("sem"))

EncoderBuffers == { <<"encoder", i>> : i \in 1..Len(ForwardOrder) }

Buffers == EncoderBuffers
           \cup { <<d, i>> : d \in Decoders, i \in 1..ProgramLen }
           \cup { <<"head", i>> : i \in 1..2 }
           \cup { <<"none", 0>> }

LocalVars == KeptNames \cup {"semantics", "offsets", "loc_preds", "conf_preds"}
             \cup { ScoreModule[d][s] : d \in Decoders, s \in ScoreNames }

Ref(buf, win) == [buf |-> buf, win |-> win]

NoRef == Ref(<<"none", 0>>, << >>)

\* the value a local variable denotes: the window it views and the buffer's content
Val(l, hp, v) == <<"view", l[v].win, hp[l[v].buf]>>

\* the state once the encoder has run: every kept output in its own buffer
EncodedLocals ==
    [v \in LocalVars |->
        IF v \in KeptNames
        THEN Ref(<<"encoder", CHOOSE i \in 1..Len(ForwardOrder) : ForwardOrder[i].layer = v>>, << >>)
        ELSE NoRef]

EncodedHeap ==
    [b \in Buffers |-> IF b \in EncoderBuffers THEN <<"feature", b[2]>> ELSE <<"unallocated">>]

\* feature_maps after line 143
FeatureMaps ==
    LET idx == { i \in 1..Len(ForwardOrder) : ForwardOrder[i].append }
        RECURSIVE Sorted(_)
        Sorted(S) == IF S = {} THEN << >>
                     ELSE LET m == CHOOSE i \in S : \A j \in S : i <= j
                          IN  <<ForwardOrder[m].layer>> \o Sorted(S \ {m})
    IN  Sorted(idx)

Access(t, buf, kind) == [thread |-> t, buf |-> buf, kind |-> kind]

\* one instruction of decoder d at position i: a score projection and a transpose
\* convolution return a tensor in a buffer of its own; a crop is a view of its
\* operand's buffer; += writes the buffer its left operand views; .contiguous()
\* copies the cropped view
Exec(d, i, st) ==
    LET ins == Program(d)[i]
        l   == st.locals
        hp  == st.heap
        new == <<d, i>>
    IN  CASE ins.op = "score" ->
               [locals |-> [l EXCEPT ![ins.dst] = Ref(new, << >>)],
                heap   |-> [hp EXCEPT ![new] = <<"score", ins.arg, Val(l, hp, ins.src)>>],
                log    |-> st.log \cup {Access(d, l[ins.src].buf, "read"),
                                        Access(d, new, "alloc")}]
          [] ins.op = "up" ->
               [locals |-> [l EXCEPT ![ins.dst] = Ref(new, << >>)],
                heap   |-> [hp EXCEPT ![new] = <<"up", ins.arg, Val(l, hp, ins.src)>>],
                log    |-> st.log \cup {Access(d, l[ins.src].buf, "read"),
                                        Access(d, new, "alloc")}]
          [] ins.op = "crop" ->
               [locals |-> [l EXCEPT ![ins.dst] =
                               Ref(l[ins.dst].buf, Append(l[ins.dst].win, <<ins.arg, ins.src>>))],
                heap   |-> hp,
                log    |-> st.log]
          [] ins.op = "add" ->
               [locals |-> l,
                heap   |-> [hp EXCEPT ![l[ins.dst].buf] =
                               <<"add", l[ins.dst].win, @, Val(l, hp, ins.src)>>],
                log    |-> st.log \cup {Access(d, l[ins.src].buf, "read"),
                                        Access(d, l[ins.dst].buf, "write")}]
          [] ins.op = "final" ->
               [locals |-> [l EXCEPT ![ins.dst] = Ref(new, << >>)],
                heap   |-> [hp EXCEPT ![new] =
                               <<"contiguous", ins.arg, Val(l, hp, ins.dst)>>],
                log    |-> st.log \cup {Access(d, l[ins.dst].buf, "read"),
                                        Access(d, new, "alloc")}]

\* line 145: loc_preds, conf_preds = self.multibox(feature_maps)
ExecHead(st) ==
    LET l    == st.locals
        hp   == st.heap
        args == [i \in 1..Len(FeatureMaps) |-> Val(l, hp, FeatureMaps[i])]
    IN  [locals |-> [l EXCEPT !["loc_preds"] = Ref(<<"head", 1>>, << >>),
                              !["conf_preds"] = Ref(<<"head", 2>>, << >>)],
         heap   |-> [hp EXCEPT ![<<"head", 1>>] = <<"loc", args>>,
                               ![<<"head", 2>>] = <<"conf", args>>],
         log    |-> st.log \cup { Access("head", l[FeatureMaps[i]].buf, "read") :
                                    i \in 1..Len(FeatureMaps) }
                           \cup { Access("head", <<"head", 1>>, "alloc"),
                                  Access("head", <<"head", 2>>, "alloc") }]

RECURSIVE RunDecoder(_, _, _)
RunDecoder(d, i, st) ==
    IF i > ProgramLen THEN st ELSE RunDecoder(d, i + 1, Exec(d, i, st))

Encoded == [locals |-> EncodedLocals, heap |-> EncodedHeap, log |-> {}]

\* lines 145-177 in the order of the code
Sequential == RunDecoder("offs", 1, RunDecoder("sem", 1, ExecHead(Encoded)))

\* line 179: return loc_preds, conf_preds, semantics, offsets
Returned(l, hp) ==
    << Val(l, hp, "loc_preds"), Val(l, hp, "conf_preds"),
       Val(l, hp, "semantics"), Val(l, hp, "offsets") >>

---------------------------------------------------------------------------
(* The network's life: construction, import, forward calls.                *)

NoCtor == [called |-> FALSE, num_classes |-> 0, err |-> "none", zeroed |-> {}]

NoHist == [transform_input |-> FALSE, imported |-> FALSE]

Init ==
    /\ net = NoNet
    /\ ctor = NoCtor
    /\ hist = NoHist
    /\ pc = "idle"
    /\ out = NoOut
    /\ tpc = [t \in Threads |-> 0]
    /\ locals = EncodedLocals
    /\ heap = EncodedHeap
    /\ log = {}

\* box2pix(num_classes, pretrained, **kwargs): kwargs' transform_input is "True",
\* "False" or "absent"; Box2Pix's default is False, and box2pix sets True when
\* pretrained is given without it (lines 13-14)
TransformInputArg(pretrained, kw) ==
    IF kw = "absent" THEN pretrained ELSE kw = "True"

\* lines 15-17: the pretrained branch loads a state dict from the empty URL,
\* which raises; line 19 returns the instance
Box2PixFactory(num_classes, pretrained, kw) ==
    LET r == NewBox2Pix(num_classes, TransformInputArg(pretrained, kw))
    IN  IF pretrained /\ r.err = "none"
        THEN [r EXCEPT !.err = "load_url", !.net = NoNet]
        ELSE r

\* box2pix(num_classes, pretrained, transform_input=...), and with
\* pretrained=False equally Box2Pix(num_classes, transform_input)
Construct(num_classes, pretrained, kw) ==
    /\ pc = "idle"
    /\ LET r == Box2PixFactory(num_classes, pretrained, kw)
       IN  /\ net' = r.net
           /\ ctor' = [called |-> TRUE, num_classes |-> num_classes,
                       err |-> r.err, zeroed |-> r.zeroed]
    /\ hist' = [transform_input |-> TransformInputArg(pretrained, kw),
                imported |-> FALSE]
    /\ out' = NoOut
    /\ UNCHANGED <<pc, tpc, locals, heap, log>>

\* init_from_googlenet: the GoogLeNet parameters replace those of the modules of
\* the same name, and the flag is set
InitFromGooglenet ==
    /\ pc = "idle"
    /\ net.built
    /\ net' = [net EXCEPT !.pretrained = GoogLeNetModules,
                          !.transform_input = FlagAfterImport(@)]
    /\ hist' = [hist EXCEPT !.imported = TRUE]
    /\ UNCHANGED <<ctor, pc, out, tpc, locals, heap, log>>

\* forward(x), from the call to its return or its exception
Forward(h, w, zero_image) ==
    /\ pc = "idle"
    /\ net.built
    /\ out' = ForwardResult(net, h, w, zero_image)
    /\ pc' = "done"
    /\ UNCHANGED <<net, ctor, hist, tpc, locals, heap, log>>

\* the caller takes the result
Return ==
    /\ pc = "done"
    /\ pc' = "idle"
    /\ out' = NoOut
    /\ UNCHANGED <<net, ctor, hist, tpc, locals, heap, log>>

Next ==
    \/ \E num_classes \in NumClassesArgs, pretrained \in BOOLEAN, kw \in KwArgs :
          Construct(num_classes, pretrained, kw)
    \/ InitFromGooglenet
    \/ \E h \in Sizes, w \in Sizes, zero_image \in BOOLEAN : Forward(h, w, zero_image)
    \/ Return

Spec == Init /\ [][Next]_vars

---------------------------------------------------------------------------
(* Lines 145-177 with the head and the two decoders evaluated in any       *)
(* interleaving, one instruction at a time.                                *)

HeadStep ==
    /\ tpc["head"] = 0
    /\ LET st == ExecHead([locals |-> locals, heap |-> heap, log |-> log])
       IN  /\ locals' = st.locals
           /\ heap' = st.heap
           /\ log' = st.log
    /\ tpc' = [tpc EXCEPT !["head"] = 1]
    /\ UNCHANGED <<net, ctor, hist, pc, out>>

DecoderStep(d) ==
    /\ tpc[d] < ProgramLen
    /\ LET st == Exec(d, tpc[d] + 1, [locals |-> locals, heap |-> heap, log |-> log])
       IN  /\ locals' = st.locals
           /\ heap' = st.heap
           /\ log' = st.log
    /\ tpc' = [tpc EXCEPT ![d] = @ + 1]
    /\ UNCHANGED <<net, ctor, hist, pc, out>>

NextPar ==
    \/ HeadStep
    \/ \E d \in Decoders : DecoderStep(d)

SpecPar == Init /\ [][NextPar]_vars

AllReturned == tpc["head"] = 1 /\ \A d \in Decoders : tpc[d] = ProgramLen

---------------------------------------------------------------------------
(* Properties.                                                             *)

Returns == pc = "done" /\ out.err = "none"

\* C1 (as claimed): every forward call of a network with num_classes >= 1 on an
\* image of height and width at least 64 returns semantics and offsets of
\* exactly the image's height and width.
C1_OutputSizeExact ==
    (pc = "done" /\ net.num_classes >= 1 /\ out.h >= 64 /\ out.w >= 64) =>
        /\ out.err = "none"
        /\ out.sem.result.h = out.h /\ out.sem.result.w = out.w
        /\ out.offs.result.h = out.h /\ out.offs.result.w = out.w

\* C2 (as claimed): a forward call (of a network with num_classes >= 1, on an
\* image of any size) in which a crop window reaches past the tensor it is
\* applied to ends in an error, and a call that returns never returns a map
\* with fewer rows or columns than the image.
C2_CropFailsLoudly ==
    (pc = "done" /\ net.num_classes >= 1) =>
        /\ (out.sem.overrun \/ out.offs.overrun) => out.err # "none"
        /\ out.err = "none" =>
              /\ out.sem.result.h = out.h /\ out.sem.result.w = out.w
              /\ out.offs.result.h = out.h /\ out.offs.result.w = out.w

\* C3: on a network whose parameters are those the constructor left, the eight
\* score projections have zero weight and bias, and a forward call on an
\* all-zero image returns semantics and offsets that are zero everywhere.
C3_ZeroImageZeroOutput ==
    (net.built /\ ~hist.imported) =>
        /\ ScoreProjections \subseteq net.zeroed
        /\ (Returns /\ out.zero_image) =>
              out.sem.result.zero /\ out.offs.result.zero

\* C3's case: a zero image through a freshly constructed network whose input
\* normalization makes the encoder's features non-zero, and still zero maps out.
C3_Witness ==
    /\ Returns /\ out.zero_image /\ ~hist.imported
    /\ net.transform_input /\ ~out.features_zero
    /\ net.num_classes = 11
    /\ out.sem.result.zero /\ out.offs.result.zero

C5_RejectsNonPositive ==
    (ctor.called /\ ctor.num_classes <= 0) => (ctor.err # "none" /\ ~net.built)

\* C6: the flag of an instance is on exactly when the constructor was given
\* transform_input=True or init_from_googlenet has been called; a forward call
\* normalizes exactly when the flag is on, and leaves the flag as it found it.
C6_NormalizationFlag ==
    /\ net.built => (net.transform_input <=> (hist.transform_input \/ hist.imported))
    /\ pc = "done" =>
          /\ out.normalized <=> (hist.transform_input \/ hist.imported)
          /\ net.transform_input <=> out.normalized

\* C6's case: constructed without normalization, imported, then a forward call
\* that normalized.
C6_Witness ==
    /\ pc = "done" /\ out.called
    /\ ~hist.transform_input /\ hist.imported
    /\ out.normalized

\* C7: in every interleaving of the head and the two decoders, an in-place
\* write goes to a buffer the writer allocated itself, a read goes to an encoder
\* output or to a buffer of the reader's own, and what forward returns is what
\* the code's sequential order returns.
C7_Independent ==
    /\ \A e \in log : e.kind = "write" => e.buf[1] = e.thread
    /\ \A e \in log : e.kind = "read" => e.buf[1] \in {"encoder", e.thread}
    /\ \A e \in log : e.kind = "alloc" => e.buf[1] = e.thread
    /\ AllReturned =>
          Returned(locals, heap) = Returned(Sequential.locals, Sequential.heap)

\* C7's case: an order the code does not take: the offsets decoder has returned,
\* the semantic decoder has done its first in-place addition, the head has not run.
C7_Witness ==
    /\ tpc["offs"] = ProgramLen
    /\ tpc["sem"] = 5
    /\ tpc["head"] = 0
    /\ \E e \in log : e.thread = "sem" /\ e.kind = "write"

\* C8: whenever the encoder has produced its outputs, at each of the three x2
\* fusion steps of each decoder the crop window (offset 1, the finer score
\* tensor's height and width) lies inside the upsampled map, and the cropped
\* map has exactly the finer score tensor's height and width.
C8_CropWindowFits ==
    (pc = "done" /\ out.encoded) =>
        \A d \in Decoders : \A i \in 1..Len(FusionSteps) :
            LET f == out[d].fusions[i]
            IN  /\ f.up.err = "none" /\ f.score.err = "none" /\ f.crop.err = "none"
                /\ FusionOffset + f.score.h <= f.up.h
                /\ FusionOffset + f.score.w <= f.up.w
                /\ f.crop.h = f.score.h /\ f.crop.w = f.score.w
                /\ f.crop.c = f.score.c

\* C8's case: the tightest window: a stride-8 score tensor of odd height 9 under
\* the ceil-mode 3x3 pool, whose stride-16 map of height 4 upsamples to 10 rows.
C8_Witness ==
    /\ pc = "done" /\ out.encoded
    /\ out.sem.fusions[3].score.h = 9
    /\ out.sem.fusions[3].up.h = 10
    /\ out.sem.fusions[3].crop.h = 9
    /\ out.sem.fusions[1].score.h = 2 /\ out.sem.fusions[1].up.h = 4

\* C9 (as claimed): for num_classes >= 1 the constructor's _initialize_weights
\* completes, and the convolutions it sets to zero are the eight score projections.
C9_OnlyScoresZeroed ==
    (ctor.called /\ ctor.num_classes >= 1) =>
        (ctor.err = "none" /\ ctor.zeroed = ScoreProjections)

\* C10: every Inception / Inception2 stage a forward call reaches receives the
\* channel count it declares; a call that runs the whole encoder passes the 13
\* stages with 192, 256, 480, 512, 512, 512, 528, 832, 832, 1024, 832, 1024, 832
\* channels, and the outputs the score projections are applied to have the
\* 480, 832, 1024, 1024 channels the projections declare.
C10_ChannelSchedule ==
    pc = "done" =>
        /\ out.err # "channels"
        /\ \A i \in 1..Len(out.stage_in) :
              out.stage_in[i].declared = out.stage_in[i].received
        /\ out.encoded =>
              /\ [i \in 1..Len(out.stage_in) |-> out.stage_in[i].received]
                   = <<192, 256, 480, 512, 512, 512, 528, 832, 832, 1024, 832, 1024, 832>>
              /\ out.kept_c = <<480, 832, 1024, 1024>>
              /\ out.kept_c = << ScoreInChannels.score3b, ScoreInChannels.score4e,
                                 ScoreInChannels.score5b, ScoreInChannels.score6b >>

\* C10's case: a forward call that ran all 13 stages and both decoders.
C10_Witness ==
    /\ Returns /\ out.encoded
    /\ Len(out.stage_in) = 13
    /\ out.stage_in[13].stage = "inception7b"

====
